---------------------------- MODULE Spec2Model ----------------------------
(***************************************************************************)
(* A model of the data standardization and reconciliation pipeline of the  *)
(* mh package: the resilient parquet reader (utils.read_parquet_safe), the *)
(* country-code resolver (utils.to_iso3 and its fallback map), and the     *)
(* table operations of data.py (ingest_csv's derivation, clean,            *)
(* gender_gap, join_external).                                             *)
(*                                                                         *)
(* Every component is a state machine over its own variables; the other    *)
(* components' variables stay at their idle values while it runs.          *)
(***************************************************************************)
EXTENDS Integers, Sequences, FiniteSets, TLC

VARIABLES
    \* ---- read_parquet_safe (utils.py:103-147)
    pc,          \* position inside read_parquet_safe
    columns,     \* the `columns` argument: None or a list of names
    attempts,    \* the read strategies attempted so far, in order
    errs,        \* the error each attempted strategy raised (NoErr if none)
    decoded,     \* the strategy whose reader decoded the file ("none" if none)
    result,      \* what the call returned or raised ("none" while running)
    \* ---- the table operations of data.py
    op,          \* the operation of data.py that is applied ("none" if none)
    df,          \* the frame the operation is applied to
    external,    \* join_external's second frame
    on,          \* join_external's key list
    out,         \* the operation's outcome ("none" until it has run)
    \* ---- the country-code resolver (utils.py:16-78)
    cc,          \* whether country_converter was importable (_cc is not None)
    bundle,      \* whether _country_iso_fallback.json can be opened and parsed
    cache,       \* lru_cache of _fallback_iso_map: None, or the cached dict
    loads,       \* how many times the bundled table has been loaded
    served,      \* how the last call's _fallback_iso_map() was answered
    calls,       \* how many names to_iso3 has mapped
    name,        \* the name of the last call
    code,        \* the code the last call returned (None for nan)
    origin       \* where the code of the last call came from

readerVars == <<pc, columns, attempts, errs, decoded, result>>

tableVars == <<op, df, external, on, out>>

resolverVars == <<cc, bundle, cache, loads, served, calls, name, code, origin>>

vars == <<readerVars, tableVars, resolverVars>>

None == "None"

(***************************************************************************)
(* Generic helpers                                                         *)
(***************************************************************************)
Range(s) == {s[i] : i \in DOMAIN s}

Last(s) == s[Len(s)]

\* [x for x in s if Keep(x)]
RECURSIVE FilterSeq(_, _)
FilterSeq(s, keep) ==
    IF s = <<>> THEN <<>>
    ELSE IF Head(s) \in keep THEN <<Head(s)>> \o FilterSeq(Tail(s), keep)
         ELSE FilterSeq(Tail(s), keep)

\* The values the variables of a component hold while another one runs.
NoFrame == [cols |-> <<>>, rows |-> <<>>]

NoOutcome == [kind |-> "none", frame |-> NoFrame, error |-> "none"]

TablesIdle ==
    /\ op = "none"
    /\ df = NoFrame
    /\ external = NoFrame
    /\ on = <<>>
    /\ out = NoOutcome

\* The lru_cache(maxsize=1) of the argument-less _fallback_iso_map, before
\* the first call: nothing stored
EmptyCache == [built |-> FALSE, items |-> {}]

ResolverIdle ==
    /\ cc = FALSE
    /\ bundle = TRUE
    /\ origin = "none"
    /\ cache = EmptyCache
    /\ loads = 0
    /\ served = "none"
    /\ calls = 0
    /\ name = <<>>
    /\ code = None

ReaderIdle ==
    /\ pc = "idle"
    /\ columns = None
    /\ attempts = <<>>
    /\ errs = <<>>
    /\ decoded = "none"
    /\ result = None

(***************************************************************************)
(* read_parquet_safe                                                       *)
(***************************************************************************)
\* The columns stored in the parquet file (frame.columns after to_pandas()).
FileColumns == <<"a", "b">>

\* The `columns` arguments tried: None, the empty list, subsets in either
\* order, and lists naming columns the file does not have.
ColumnArgs ==
    {None, <<>>, <<"a">>, <<"b", "a">>, <<"a", "z">>, <<"z", "y">>}

Strategies == {"primary", "legacy", "retry", "single", "fastparquet"}

\* An exception: the strategy that raised it, its Python type, whether its
\* message carries the signature, and (for the KeyError of line 145) the
\* missing columns it names.
NoErr == [stage |-> "none", type |-> "none", defect |-> FALSE, missing |-> <<>>]

Exc(stage, type, defect) ==
    [stage |-> stage, type |-> type, defect |-> defect, missing |-> <<>>]

\* What a reader can raise: an OSError with or without the signature, a
\* TypeError, or any other exception.
Raised(stage) ==
    {Exc(stage, "OSError", TRUE), Exc(stage, "OSError", FALSE),
     Exc(stage, "TypeError", FALSE), Exc(stage, "Other", FALSE)}

\* A test of the signature that every error passes.
HasSignatureAlways(e) == TRUE

\* "Repetition level histogram size mismatch" in str(err)
HasSignature(e) == e.defect

\* `except OSError as e: if signature not in str(e): raise`: the handler
\* swallows exactly the OSErrors that carry the signature.
Handled(e) == e.type = "OSError" /\ HasSignature(e)

Returned(cols, via) == [kind |-> "ok", cols |-> cols, err |-> NoErr, via |-> via]

RaisedOut(e) == [kind |-> "err", cols |-> <<>>, err |-> e, via |-> "none"]

Running == [kind |-> "none", cols |-> <<>>, err |-> NoErr, via |-> "none"]

\* missing = [c for c in columns if c not in frame.columns]
Missing(cols, frameCols) ==
    IF cols = None THEN <<>>
    ELSE FilterSeq(cols, Range(cols) \ Range(frameCols))

\* pd.read_parquet(path, columns=columns, engine=...) once the engine has
\* decoded the file.  The engine projects to `columns` itself; what it does
\* with a column the file lacks is the library's business, so both a raise
\* and a silent projection to the columns present are allowed.
EngineProject(stage) ==
    IF columns = None THEN {Returned(FileColumns, stage)}
    ELSE IF Missing(columns, FileColumns) = <<>> THEN {Returned(columns, stage)}
    ELSE {RaisedOut(Exc(stage, "Other", FALSE)),
          Returned(FilterSeq(columns, Range(FileColumns)), stage)}

InitReader ==
    /\ pc = "primary"
    /\ columns \in ColumnArgs
    /\ attempts = <<>>
    /\ errs = [s \in Strategies |-> NoErr]
    /\ decoded = "none"
    /\ result = Running
    /\ TablesIdle
    /\ ResolverIdle

Attempt(stage) == attempts' = Append(attempts, stage)

\* read_parquet_safe touches neither a frame of data.py nor the resolver.
ReaderOnly == UNCHANGED <<tableVars, resolverVars>>

\* utils.py:108-118  return pd.read_parquet(path, columns=columns)
PrimaryOk ==
    /\ pc = "primary"
    /\ Attempt("primary")
    /\ decoded' = "primary"
    /\ \E r \in EngineProject("primary") :
          /\ result' = r
          /\ errs' = IF r.kind = "err" THEN [errs EXCEPT !["primary"] = r.err]
                     ELSE errs
    /\ pc' = "done"
    /\ UNCHANGED columns
    /\ ReaderOnly

PrimaryFail ==
    /\ pc = "primary"
    /\ Attempt("primary")
    /\ \E e \in Raised("primary") :
          /\ errs' = [errs EXCEPT !["primary"] = e]
          /\ IF Handled(e)
             THEN pc' = "import_pa" /\ result' = result
             ELSE pc' = "done" /\ result' = RaisedOut(e)
    /\ UNCHANGED <<columns, decoded>>
    /\ ReaderOnly

\* utils.py:119-123  import pyarrow; on ImportError `raise err from exc`
ImportPyarrow ==
    /\ pc = "import_pa"
    /\ \E importable \in BOOLEAN :
          IF importable
          THEN pc' = "legacy" /\ result' = result
          ELSE pc' = "done" /\ result' = RaisedOut(errs["primary"])
    /\ UNCHANGED <<columns, attempts, errs, decoded>>
    /\ ReaderOnly

\* utils.py:124-125  pq.read_table(path, use_legacy_dataset=True, ...)
LegacyOk ==
    /\ pc = "legacy"
    /\ Attempt("legacy")
    /\ decoded' = "legacy"
    /\ pc' = "validate"
    /\ UNCHANGED <<columns, errs, result>>
    /\ ReaderOnly

\* utils.py:126-130  TypeError -> retry without use_legacy_dataset;
\* OSError with the signature -> single-file read; anything else propagates.
LegacyFail ==
    /\ pc = "legacy"
    /\ Attempt("legacy")
    /\ \E e \in Raised("legacy") :
          /\ errs' = [errs EXCEPT !["legacy"] = e]
          /\ IF e.type = "TypeError"
             THEN pc' = "retry" /\ result' = result
             ELSE IF Handled(e)
             THEN pc' = "single" /\ result' = result
             ELSE pc' = "done" /\ result' = RaisedOut(e)
    /\ UNCHANGED <<columns, decoded>>
    /\ ReaderOnly

\* utils.py:127  table = pq.read_table(path, use_threads=False), inside the
\* TypeError handler: whatever it raises leaves the function.
RetryOk ==
    /\ pc = "retry"
    /\ Attempt("retry")
    /\ decoded' = "retry"
    /\ pc' = "validate"
    /\ UNCHANGED <<columns, errs, result>>
    /\ ReaderOnly

RetryFail ==
    /\ pc = "retry"
    /\ Attempt("retry")
    /\ \E e \in Raised("retry") :
          /\ errs' = [errs EXCEPT !["retry"] = e]
          /\ result' = RaisedOut(e)
    /\ pc' = "done"
    /\ UNCHANGED <<columns, decoded>>
    /\ ReaderOnly

\* utils.py:131-135  table = pq.ParquetFile(path).read(use_threads=False)
SingleOk ==
    /\ pc = "single"
    /\ Attempt("single")
    /\ decoded' = "single"
    /\ pc' = "validate"
    /\ UNCHANGED <<columns, errs, result>>
    /\ ReaderOnly

SingleFail ==
    /\ pc = "single"
    /\ Attempt("single")
    /\ \E e \in Raised("single") :
          /\ errs' = [errs EXCEPT !["single"] = e]
          /\ IF Handled(e)
             THEN pc' = "fastparquet" /\ result' = result
             ELSE pc' = "done" /\ result' = RaisedOut(e)
    /\ UNCHANGED <<columns, decoded>>
    /\ ReaderOnly

\* The error `except Exception:` re-raises at utils.py:140.
Exhausted == errs["single"]

\* utils.py:136-140  import fastparquet fails: `except Exception: raise err3`
FastparquetMissing ==
    /\ pc = "fastparquet"
    /\ result' = RaisedOut(Exhausted)
    /\ pc' = "done"
    /\ UNCHANGED <<columns, attempts, errs, decoded>>
    /\ ReaderOnly

\* utils.py:138-140  the fastparquet read raises: `except Exception: raise err3`
FastparquetFail ==
    /\ pc = "fastparquet"
    /\ Attempt("fastparquet")
    /\ \E e \in Raised("fastparquet") :
          errs' = [errs EXCEPT !["fastparquet"] = e]
    /\ result' = RaisedOut(Exhausted)
    /\ pc' = "done"
    /\ UNCHANGED <<columns, decoded>>
    /\ ReaderOnly

\* utils.py:138  return pd.read_parquet(path, columns=columns,
\* engine="fastparquet"): returned as the engine gives it, with no check of
\* `columns`; an exception of the engine's projection is caught by line 139.
FastparquetOk ==
    /\ pc = "fastparquet"
    /\ Attempt("fastparquet")
    /\ decoded' = "fastparquet"
    /\ \E r \in EngineProject("fastparquet") :
          IF r.kind = "err"
          THEN /\ errs' = [errs EXCEPT !["fastparquet"] = r.err]
               /\ result' = RaisedOut(Exhausted)
          ELSE /\ errs' = errs
               /\ result' = r
    /\ pc' = "done"
    /\ UNCHANGED columns
    /\ ReaderOnly

\* `if columns:` of utils.py:142
ColumnsRequested == columns # None /\ columns # <<>>

KeyErrorOf(missing) ==
    [stage |-> "validate", type |-> "KeyError", defect |-> FALSE,
     missing |-> missing]

\* utils.py:141-147  frame = table.to_pandas(); validate and project
Validate ==
    /\ pc = "validate"
    /\ LET missing == Missing(columns, FileColumns)
       IN  result' =
             IF ColumnsRequested
             THEN IF missing # <<>> THEN RaisedOut(KeyErrorOf(missing))
                  ELSE Returned(columns, decoded)
             ELSE Returned(FileColumns, decoded)
    /\ pc' = "done"
    /\ UNCHANGED <<columns, attempts, errs, decoded>>
    /\ ReaderOnly

NextReader ==
    \/ PrimaryOk \/ PrimaryFail \/ ImportPyarrow
    \/ LegacyOk \/ LegacyFail \/ RetryOk \/ RetryFail
    \/ SingleOk \/ SingleFail
    \/ FastparquetMissing \/ FastparquetFail \/ FastparquetOk
    \/ Validate

SpecReader == InitReader /\ [][NextReader]_vars

(***************************************************************************)
(* Cell values of a DataFrame.  A cell is NaN/None, a number (kept as a    *)
(* reduced fraction, so that a mean of integers is exact), a string that   *)
(* is only compared (s), or a string whose characters are read (t).        *)
(***************************************************************************)
NaN == [k |-> "nan", n |-> 0, d |-> 1, s |-> "", t |-> <<>>]

Str(x) == [k |-> "str", n |-> 0, d |-> 1, s |-> x, t |-> <<>>]

Text(chars) == [k |-> "str", n |-> 0, d |-> 1, s |-> "", t |-> chars]

Abs(i) == IF i < 0 THEN -i ELSE i

RECURSIVE GCD(_, _)
GCD(a, b) == IF b = 0 THEN a ELSE GCD(b, a % b)

\* The number n/d (d > 0), reduced
Rat(n, d) ==
    LET g == GCD(Abs(n), d)
    IN  [k |-> "num", n |-> n \div g, d |-> d \div g, s |-> "", t |-> <<>>]

Num(i) == Rat(i, 1)

IsNull(v) == v.k = "nan"

\* a - b of two cells of a numeric column: NaN as soon as one operand is
Sub(a, b) ==
    IF IsNull(a) \/ IsNull(b) THEN NaN
    ELSE Rat(a.n * b.d - b.n * a.d, a.d * b.d)

RECURSIVE SumNum(_)
SumNum(vs) ==
    IF vs = <<>> THEN Num(0)
    ELSE LET h == Head(vs)
             t == SumNum(Tail(vs))
         IN  Rat(h.n * t.d + t.n * h.d, h.d * t.d)

RECURSIVE DropNull(_)
DropNull(vs) ==
    IF vs = <<>> THEN <<>>
    ELSE IF IsNull(Head(vs)) THEN DropNull(Tail(vs))
         ELSE <<Head(vs)>> \o DropNull(Tail(vs))

\* pandas' mean (skipna=True, the default of DataFrame.mean and of
\* aggfunc="mean"): the mean of the cells that are not NaN, NaN if none is.
Mean(vs) ==
    LET present == DropNull(vs)
    IN  IF present = <<>> THEN NaN
        ELSE LET t == SumNum(present) IN Rat(t.n, t.d * Len(present))

(***************************************************************************)
(* Column names.  A name is the sequence of its "_"-separated segments     *)
(* ("prevalence_total" is <<"prevalence", "total">>, "" is <<"">>), so that *)
(* endswith, slicing, rstrip and concatenation are computed on the name.   *)
(***************************************************************************)
country == <<"country">>
country_iso3 == <<"country", "iso3">>
year == <<"year">>
sex == <<"sex">>
prevalence_total == <<"prevalence", "total">>
prevalence_male == <<"prevalence", "male">>
prevalence_female == <<"prevalence", "female">>
prevalence_depression == <<"prevalence", "depression">>
prevalence_anxiety == <<"prevalence", "anxiety">>

\* name + "_" + suffix
WithSuffix(c, suffix) == c \o <<suffix>>

\* c.endswith("_" + word)
EndsWith(c, word) == Len(c) >= 2 /\ c[Len(c)] = word

\* c[:-(1 + len(word))] for a c that ends with "_" + word
StripSuffix(c) == SubSeq(c, 1, Len(c) - 1)

\* c.endswith("_")
EndsWithUnderscore(c) == Len(c) >= 2 /\ c[Len(c)] = ""

\* c.rstrip("_")
RECURSIVE RStripUnderscore(_)
RStripUnderscore(c) ==
    IF Len(c) >= 2 /\ c[Len(c)] = "" THEN RStripUnderscore(StripSuffix(c))
    ELSE c

(***************************************************************************)
(* Frames: the column list and the rows, each row a function from the      *)
(* columns to cells.                                                       *)
(***************************************************************************)
Frame(cols, rows) == [cols |-> cols, rows |-> rows]

Has(frame, c) == c \in Range(frame.cols)

\* [x for x in s if Keep(x)], on sequences of any element
RECURSIVE SelectIdx(_, _, _)
SelectIdx(s, keep, i) ==
    IF i > Len(s) THEN <<>>
    ELSE IF i \in keep THEN <<s[i]>> \o SelectIdx(s, keep, i + 1)
         ELSE SelectIdx(s, keep, i + 1)

Select(s, keep) == SelectIdx(s, keep, 1)

RECURSIVE Flatten(_)
Flatten(ss) == IF ss = <<>> THEN <<>> ELSE Head(ss) \o Flatten(Tail(ss))

\* frame[cols]
Project(frame, cols) ==
    Frame(cols, [i \in DOMAIN frame.rows |->
                    [c \in Range(cols) |-> frame.rows[i][c]]])

Ok(frame) == [kind |-> "ok", frame |-> frame, error |-> "none"]

Fails(error) == [kind |-> "err", frame |-> NoFrame, error |-> error]

\* The order of strings, for the strings that occur as keys here.
StrRank(x) ==
    LET order == <<"", "AAA", "BBB", "X", "Y">>
    IN  CHOOSE i \in DOMAIN order : order[i] = x

\* a < b as pandas sorts cells of one column: NaN last
CellLess(a, b) ==
    IF IsNull(a) THEN FALSE
    ELSE IF IsNull(b) THEN TRUE
    ELSE IF a.k = "str" THEN StrRank(a.s) < StrRank(b.s)
    ELSE a.n * b.d < b.n * a.d

\* lexicographic order of key tuples
RECURSIVE KeyLess(_, _)
KeyLess(a, b) ==
    IF a = <<>> THEN FALSE
    ELSE IF CellLess(Head(a), Head(b)) THEN TRUE
    ELSE IF CellLess(Head(b), Head(a)) THEN FALSE
    ELSE KeyLess(Tail(a), Tail(b))

RECURSIVE SortKeys(_)
SortKeys(S) ==
    IF S = {} THEN <<>>
    ELSE LET m == CHOOSE x \in S : \A y \in S \ {x} : ~KeyLess(y, x)
         IN  <<m>> \o SortKeys(S \ {m})

KeyOf(row, keys) == [i \in DOMAIN keys |-> row[keys[i]]]

\* the indices of the rows of a frame whose key is k
RowsWithKey(frame, keys, k) ==
    {i \in DOMAIN frame.rows : KeyOf(frame.rows[i], keys) = k}

(***************************************************************************)
(* pd.merge(left, right, on=on, how=how)                                    *)
(***************************************************************************)
\* the non-key columns both frames have: they get the suffixes _x and _y
Overlap(left, right, keys) ==
    (Range(left.cols) \cap Range(right.cols)) \ Range(keys)

LeftName(left, right, keys, c) ==
    IF c \in Overlap(left, right, keys) THEN WithSuffix(c, "x") ELSE c

RightName(left, right, keys, c) ==
    IF c \in Overlap(left, right, keys) THEN WithSuffix(c, "y") ELSE c

RightOnly(right, keys) ==
    Select(right.cols, {i \in DOMAIN right.cols : right.cols[i] \notin Range(keys)})

MergedCols(left, right, keys) ==
    [i \in DOMAIN left.cols |-> LeftName(left, right, keys, left.cols[i])]
    \o [i \in DOMAIN RightOnly(right, keys) |->
            RightName(left, right, keys, RightOnly(right, keys)[i])]

\* One merged row, of left row l and right row r; 0 stands for "no row on
\* that side".  A key column takes the value of whichever side has a row.
MergedRow(left, right, keys, l, r) ==
    [c \in Range(MergedCols(left, right, keys)) |->
        IF c \in Range(keys)
        THEN IF l # 0 THEN left.rows[l][c] ELSE right.rows[r][c]
        ELSE IF \E c0 \in Range(left.cols) : LeftName(left, right, keys, c0) = c
        THEN LET c0 == CHOOSE c0 \in Range(left.cols) :
                            LeftName(left, right, keys, c0) = c
             IN  IF l # 0 THEN left.rows[l][c0] ELSE NaN
        ELSE LET c0 == CHOOSE c0 \in Range(right.cols) \ Range(keys) :
                            RightName(left, right, keys, c0) = c
             IN  IF r # 0 THEN right.rows[r][c0] ELSE NaN]

\* an increasing sequence of the elements of a set of row indices
RECURSIVE Ascending(_)
Ascending(S) ==
    IF S = {} THEN <<>>
    ELSE LET m == CHOOSE x \in S : \A y \in S : x <= y
         IN  <<m>> \o Ascending(S \ {m})

\* the rows left row l gives: one per matching right row, in the right
\* frame's order, or (unless inner) one with the right columns NaN
RowsOfLeft(left, right, keys, how, l) ==
    LET ms == Ascending(RowsWithKey(right, keys, KeyOf(left.rows[l], keys)))
    IN  IF ms = <<>>
        THEN IF how = "inner" THEN <<>>
             ELSE <<MergedRow(left, right, keys, l, 0)>>
        ELSE [j \in DOMAIN ms |-> MergedRow(left, right, keys, l, ms[j])]

\* the rows of one key of an outer merge
RowsOfKey(left, right, keys, k) ==
    LET ls == Ascending(RowsWithKey(left, keys, k))
        rs == Ascending(RowsWithKey(right, keys, k))
    IN  IF ls = <<>>
        THEN [j \in DOMAIN rs |-> MergedRow(left, right, keys, 0, rs[j])]
        ELSE Flatten([i \in DOMAIN ls |->
                         RowsOfLeft(left, right, keys, "outer", ls[i])])

\* how="left" and how="inner" keep the left frame's order; how="outer"
\* sorts the union of the keys.
Merge(left, right, keys, how) ==
    Frame(MergedCols(left, right, keys),
          IF how = "outer"
          THEN LET ks == SortKeys({KeyOf(left.rows[i], keys) : i \in DOMAIN left.rows}
                           \cup {KeyOf(right.rows[i], keys) : i \in DOMAIN right.rows})
               IN  Flatten([i \in DOMAIN ks |-> RowsOfKey(left, right, keys, ks[i])])
          ELSE Flatten([l \in DOMAIN left.rows |->
                           RowsOfLeft(left, right, keys, how, l)]))

(***************************************************************************)
(* utils.py: the country-code resolver.  A name is the sequence of its     *)
(* characters.                                                             *)
(***************************************************************************)
\* ch.lower(), for the upper-case letters that occur here
LowerChar(ch) ==
    CASE ch = "C" -> "c"
      [] ch = "D" -> "d"
      [] ch = "I" -> "i"
      [] ch = "Ô" -> "ô"
      [] OTHER -> ch

\* ch.isalnum(): a letter, accented or not, or a digit
IsAlnum(ch) == ch \notin {" ", "'", "-", "."}

\* ch.isspace()
IsSpace(ch) == ch = " "

\* utils.py:33-34
\* "".join(ch for ch in value.lower() if ch.isalnum())
RECURSIVE _normalize_key(_)
_normalize_key(value) ==
    IF value = <<>> THEN <<>>
    ELSE IF IsAlnum(LowerChar(Head(value)))
         THEN <<LowerChar(Head(value))>> \o _normalize_key(Tail(value))
         ELSE _normalize_key(Tail(value))

RECURSIVE LStrip(_)
LStrip(x) == IF x # <<>> /\ IsSpace(Head(x)) THEN LStrip(Tail(x)) ELSE x

RECURSIVE RStrip(_)
RStrip(x) ==
    IF x # <<>> /\ IsSpace(x[Len(x)]) THEN RStrip(SubSeq(x, 1, Len(x) - 1)) ELSE x

\* x.strip()
Strip(x) == LStrip(RStrip(x))

\* The bundled reference table _country_iso_fallback.json, in file order.
CoteDIvoire == <<"C", "ô", "t", "e", " ", "d", "'", "I", "v", "o", "i", "r", "e">>

BundledTable ==
    <<[name |-> CoteDIvoire, code |-> "CIV"],
      [name |-> <<"C", "ô">>, code |-> "CO"],
      [name |-> <<"c", "c">>, code |-> "CC"]>>

\* {_normalize_key(name): code for name, code in raw.items()}, as the set
\* of its (key, code) items: a later entry with the same key replaces an
\* earlier one  (utils.py:43)
RECURSIVE BuildMap(_)
BuildMap(raw) ==
    IF raw = <<>> THEN {}
    ELSE LET e == raw[Len(raw)]
             rest == BuildMap(SubSeq(raw, 1, Len(raw) - 1))
         IN  {<<_normalize_key(e.name), e.code>>}
             \cup {item \in rest : item[1] # _normalize_key(e.name)}

\* dict.get(key)
Get(items, key) ==
    IF \E item \in items : item[1] = key
    THEN (CHOOSE item \in items : item[1] = key)[2]
    ELSE None

\* A cache that never remembers the result of an earlier call.
CacheHitNever(c) == FALSE

\* Whether lru_cache has the result of an earlier call
CacheHit(c) == c.built

\* utils.py:37-43  _fallback_iso_map() with the cache in state c:
\* utils.py:40-43: the dict the function body builds from the bundle
LoadedMap == BuildMap(BundledTable)

\* the dict, the cache and the number of loads after the call, and whether
\* the call was served from the cache, by a load, or raised (an exception is
\* not stored by lru_cache)
FallbackIsoMap(c, n) ==
    IF CacheHit(c)
    THEN [items |-> c.items, cache |-> c, loads |-> n, served |-> "cache"]
    ELSE IF bundle
    THEN [items |-> LoadedMap,
          cache |-> [built |-> TRUE, items |-> LoadedMap],
          loads |-> n + 1, served |-> "load"]
    ELSE [items |-> {}, cache |-> c, loads |-> n, served |-> "raised"]

\* What _cc.convert(names=name, to="ISO3", not_found=None) leaves in `code`
\* after utils.py:66-73: a code, or None (not found, the sentinel, an empty
\* list, or an exception)
PrimaryAnswers == {None, "CIV"}

\* utils.py:56-76  _map(x) and utils.py:46-52 _fallback_lookup(name), with
\* the primary's answer, on the resolver state st = [cache, loads]
MapOne(x, answer, st) ==
    LET stripped == Strip(x)
        key == _normalize_key(stripped)
        same == [code |-> None, origin |-> "none", served |-> "none",
                 cache |-> st.cache, loads |-> st.loads]
    IN  IF stripped = <<>> THEN same
        ELSE IF cc /\ answer # None
        THEN [same EXCEPT !.code = answer, !.origin = "primary"]
        ELSE IF key = <<>> THEN [same EXCEPT !.origin = "fallback"]
        ELSE LET m == FallbackIsoMap(st.cache, st.loads)
             IN  [code |-> IF m.served = "raised" THEN None
                           ELSE Get(m.items, key),
                  origin |-> "fallback",
                  served |-> m.served,
                  cache |-> m.cache,
                  loads |-> m.loads]

MaxCalls == 3
MaxNameLen == 2

ShortAlphabet == {"C", "ô", "o", " ", "'"}

\* the names to_iso3 is given: every short name, and two long ones
InputNames ==
    UNION {[1..n -> ShortAlphabet] : n \in 0..MaxNameLen}
    \cup {CoteDIvoire,
          <<"c", "o", "t", "e", " ", "d", " ", "i", "v", "o", "i", "r", "e">>}

InitResolver ==
    /\ cc \in BOOLEAN
    /\ bundle \in BOOLEAN
    /\ cache = EmptyCache
    /\ loads = 0
    /\ served = "none"
    /\ calls = 0
    /\ name = <<>>
    /\ code = None
    /\ origin = "none"
    /\ ReaderIdle
    /\ TablesIdle

\* one element of country_series.astype(str).map(_map)  (utils.py:78)
ToIso3 ==
    /\ pc = "idle"
    /\ op = "none"
    /\ calls < MaxCalls
    /\ \E x \in InputNames :
       \E answer \in PrimaryAnswers :
          LET r == MapOne(x, answer, [cache |-> cache, loads |-> loads])
          IN  /\ name' = x
              /\ code' = IF r.served = "raised" THEN "raised" ELSE r.code
              /\ origin' = r.origin
              /\ served' = r.served
              /\ cache' = r.cache
              /\ loads' = r.loads
    /\ calls' = calls + 1
    /\ UNCHANGED <<cc, bundle, readerVars, tableVars>>

SpecResolver == InitResolver /\ [][ToIso3]_vars

(***************************************************************************)
(* data.py: ingest_csv                                                     *)
(***************************************************************************)
\* Column names of a raw export
Entity == <<"Entity">>
Year == <<"Year">>
Male == <<"Male">>
Female == <<"Female">>
Total == <<"Total">>
Notes == <<"Notes">>

\* cfg.canonicalize(df.columns.tolist()): the canonical name of a source
\* column the mapping knows; rename leaves any other column as it is
Canonicalize(c) ==
    CASE c = Entity -> country
      [] c = Year -> year
      [] c = Male -> prevalence_male
      [] c = Female -> prevalence_female
      [] c = Total -> prevalence_total
      [] OTHER -> c

\* config.CANONICAL_COLUMNS
CANONICAL_COLUMNS ==
    <<country, country_iso3, year, prevalence_total, prevalence_male,
      prevalence_female, prevalence_depression, prevalence_anxiety, sex>>

\* df.rename(columns=mapping)  (data.py:12-13)
Rename(frame) ==
    Frame([i \in DOMAIN frame.cols |-> Canonicalize(frame.cols[i])],
          [i \in DOMAIN frame.rows |->
              [c \in {Canonicalize(c0) : c0 \in Range(frame.cols)} |->
                  frame.rows[i][CHOOSE c0 \in Range(frame.cols) :
                                    Canonicalize(c0) = c]]])

\* The condition of data.py:15
DerivesTotal(frame) ==
    /\ ~Has(frame, prevalence_total)
    /\ Has(frame, prevalence_male)
    /\ Has(frame, prevalence_female)

\* df[["prevalence_male", "prevalence_female"]].mean(axis=1), row by row
RowMean(male, female) == Mean(<<male, female>>)

\* data.py:15-16
Derive(frame) ==
    IF DerivesTotal(frame)
    THEN Frame(Append(frame.cols, prevalence_total),
               [i \in DOMAIN frame.rows |->
                   (prevalence_total :>
                       RowMean(frame.rows[i][prevalence_male],
                               frame.rows[i][prevalence_female]))
                   @@ frame.rows[i]])
    ELSE frame

\* keep = [c for c in CANONICAL_COLUMNS if c in df.columns]; df[keep]
KeepCanonical(frame) ==
    Project(frame, Select(CANONICAL_COLUMNS,
                          {i \in DOMAIN CANONICAL_COLUMNS :
                              Has(frame, CANONICAL_COLUMNS[i])}))

\* pd.to_numeric(cell, errors="coerce"): none of the strings here is a numeral
ToNumeric(cell) == IF cell.k = "str" THEN NaN ELSE cell

\* data.py:21-26
Coerce(frame) ==
    Frame(frame.cols,
          [i \in DOMAIN frame.rows |->
              [c \in Range(frame.cols) |->
                  IF c \in {year, prevalence_total, prevalence_male,
                          prevalence_female, prevalence_depression,
                          prevalence_anxiety}
                  THEN ToNumeric(frame.rows[i][c])
                  ELSE frame.rows[i][c]]])

\* country_series.astype(str): the characters of the cell, "nan" for NaN
AsChars(cell) == IF IsNull(cell) THEN <<"n", "a", "n">> ELSE cell.t

\* to_iso3 over the rows from position i on: the codes so far and the
\* resolver state, threaded through _map in row order  (utils.py:78)
RECURSIVE MapSeries(_, _, _, _)
MapSeries(cells, answers, i, acc) ==
    IF i > Len(cells) \/ acc.served = "raised" THEN acc
    ELSE LET r == MapOne(AsChars(cells[i]), answers[i],
                         [cache |-> acc.cache, loads |-> acc.loads])
         IN  MapSeries(cells, answers, i + 1,
                       [codes |-> Append(acc.codes,
                                         IF r.code = None THEN NaN ELSE Str(r.code)),
                        cache |-> r.cache,
                        loads |-> r.loads,
                        served |-> IF r.served = "none" THEN acc.served
                                   ELSE r.served])

\* data.py:9-29 on the frame read_csv returned: the frame, and the resolver
\* state that to_iso3 leaves
ingest_csv(frame, answers) ==
    LET typed == Coerce(KeepCanonical(Derive(Rename(frame))))
        start == [codes |-> <<>>, cache |-> cache, loads |-> loads,
                  served |-> "none"]
        mapped == IF Has(typed, country)
                  THEN MapSeries([i \in DOMAIN typed.rows |-> typed.rows[i][country]],
                                 answers, 1, start)
                  ELSE start
        cols == IF Has(typed, country_iso3) THEN typed.cols
                ELSE Append(typed.cols, country_iso3)
    IN  [outcome |->
            IF mapped.served = "raised" THEN Fails("bundle not readable")
            ELSE IF ~Has(typed, country) THEN Ok(typed)
            ELSE Ok(Frame(cols,
                          [i \in DOMAIN typed.rows |->
                              (country_iso3 :> mapped.codes[i]) @@ typed.rows[i]])),
         cache |-> mapped.cache,
         loads |-> mapped.loads,
         served |-> mapped.served]

(***************************************************************************)
(* data.py: clean                                                          *)
(***************************************************************************)
\* df.dropna(subset=subset): the rows with no NaN in a column of subset
DropNa(frame, subset) ==
    Frame(frame.cols,
          Select(frame.rows, {i \in DOMAIN frame.rows :
                                \A c \in Range(subset) : ~IsNull(frame.rows[i][c])}))

\* [c for c in df.columns if c != "sex"]  (data.py:38)
DedupSubset(frame) ==
    Select(frame.cols, {i \in DOMAIN frame.cols : frame.cols[i] # sex})

\* df.drop_duplicates(subset=subset): a row is dropped when an earlier row
\* agrees with it on every column of subset (NaN equals NaN here)
DropDuplicates(frame, subset) ==
    Frame(frame.cols,
          Select(frame.rows,
                 {i \in DOMAIN frame.rows :
                    ~\E j \in 1..(i - 1) :
                        \A c \in Range(subset) : frame.rows[j][c] = frame.rows[i][c]}))

\* data.py:31-39
clean(frame) ==
    IF ~Has(frame, country_iso3) THEN Fails("ValueError: country_iso3")
    ELSE IF ~Has(frame, year) THEN Fails("ValueError: year")
    ELSE LET kept == DropNa(frame, <<country_iso3, year>>)
         IN  Ok(DropDuplicates(kept, DedupSubset(kept)))

(***************************************************************************)
(* data.py: join_external                                                  *)
(***************************************************************************)
\* The join with how="inner" in place of how="left".
join_external_inner(base, ext, keys) ==
    IF \E c \in Range(keys) : ~Has(base, c) \/ ~Has(ext, c)
    THEN Fails("KeyError")
    ELSE Ok(Merge(base, ext, keys, "inner"))

\* data.py:90-91  pd.merge(base, external, on=on, how="left"); merge raises
\* a KeyError for a key column one of the frames lacks
join_external(base, ext, keys) ==
    IF \E c \in Range(keys) : ~Has(base, c) \/ ~Has(ext, c)
    THEN Fails("KeyError")
    ELSE Ok(Merge(base, ext, keys, "left"))

(***************************************************************************)
(* data.py: gender_gap                                                     *)
(***************************************************************************)
\* keys = ["country", "country_iso3", "year"]  (data.py:45)
GapKeys == <<country, country_iso3, year>>

\* indicators  (data.py:46)
Indicators == <<prevalence_total, prevalence_depression, prevalence_anxiety>>

\* str(c).lower() for the sex labels that occur here
LowerOf(x) ==
    CASE x = "Female" -> "female"
      [] x = "Male" -> "male"
      [] OTHER -> x

\* The rows pivot_table groups: groupby drops a row with a NaN group key
PivotRows(frame) ==
    {i \in DOMAIN frame.rows :
        \A c \in Range(GapKeys) \cup {sex} : ~IsNull(frame.rows[i][c])}

\* aggfunc="mean" of one (key, sex) group, over its rows in order
GroupMean(frame, ind, k, label) ==
    LET members == Ascending({i \in PivotRows(frame) :
                                /\ KeyOf(frame.rows[i], GapKeys) = k
                                /\ frame.rows[i][sex] = label})
    IN  Mean([j \in DOMAIN members |-> frame.rows[members[j]][ind]])

\* wide = df.pivot_table(index=keys, columns="sex", values=name,
\* aggfunc="mean")  (data.py:51).  dropna=True drops a (key, sex) group whose
\* mean is NaN before the sex level is unstacked into columns, so the index
\* is the sorted keys that kept a group, the columns are the sex labels that
\* kept one, and a cell with no group is NaN.
PivotTable(frame, ind) ==
    LET groups == {g \in {<<KeyOf(frame.rows[i], GapKeys), frame.rows[i][sex]>> :
                            i \in PivotRows(frame)} :
                     ~IsNull(GroupMean(frame, ind, g[1], g[2]))}
        labels == {g[2] : g \in groups}
        index == SortKeys({g[1] : g \in groups})
    IN  [index |-> index,
         labels |-> labels,
         cell |-> [g \in Range(index) \X labels |->
                      IF g \in groups THEN GroupMean(frame, ind, g[1], g[2])
                      ELSE NaN]]

\* the columns of wide that the rename (data.py:52-53) gives the name x
Labelled(wide, x) == {l \in wide.labels : LowerOf(l.s) = x}

\* wide[gap_col] = wide["female"] - wide["male"];
\* part = wide.reset_index()[keys + [gap_col]]  (data.py:58-59)
LongPart(wide, gap_col) ==
    LET f == CHOOSE l \in Labelled(wide, "female") : TRUE
        m == CHOOSE l \in Labelled(wide, "male") : TRUE
    IN  Frame(GapKeys \o <<gap_col>>,
              [i \in DOMAIN wide.index |->
                  [c \in Range(GapKeys) \cup {gap_col} |->
                      IF c = gap_col
                      THEN Sub(wide.cell[<<wide.index[i], f>>],
                               wide.cell[<<wide.index[i], m>>])
                      ELSE wide.index[i][CHOOSE j \in DOMAIN GapKeys :
                                            GapKeys[j] = c]]])

\* The long pass (data.py:48-61) over the indicators from position i on.
\* st is [out, produced, error].
RECURSIVE LongPass(_, _, _)
LongPass(frame, i, st) ==
    IF i > Len(Indicators) \/ st.error # "none" THEN st
    ELSE LET name_ == Indicators[i]
             gap_col == name_ \o <<"gap", "fm">>
             wide == PivotTable(frame, name_)
         IN  IF ~Has(frame, name_) THEN LongPass(frame, i + 1, st)
             ELSE IF \E c \in Range(GapKeys) : ~Has(frame, c)
             THEN [st EXCEPT !.error = "KeyError"]
             ELSE IF Labelled(wide, "female") = {} \/ Labelled(wide, "male") = {}
             THEN LongPass(frame, i + 1, st)
             ELSE IF gap_col \in st.produced
             THEN LongPass(frame, i + 1, st)
             \* two labels renamed to one name: wide["female"] is then a
             \* frame of two columns, and assigning the difference raises
             ELSE IF Cardinality(Labelled(wide, "female")) > 1
                     \/ Cardinality(Labelled(wide, "male")) > 1
             THEN [st EXCEPT !.error = "ValueError: duplicate labels"]
             ELSE LongPass(frame, i + 1,
                           [st EXCEPT !.out = Append(@, LongPart(wide, gap_col)),
                                      !.produced = @ \cup {gap_col}])

\* male_cols = [c for c in df.columns if c.endswith("_male")]  (data.py:64)
MaleCols(frame) ==
    Select(frame.cols, {i \in DOMAIN frame.cols : EndsWith(frame.cols[i], "male")})

\* data.py:70-74: the name of the gap column of male_col
GapName(male_col) ==
    LET base == StripSuffix(male_col)
        stripped == IF EndsWithUnderscore(base) THEN RStripUnderscore(base) ELSE base
        indicator_name == IF stripped = <<"">> THEN StripSuffix(male_col) ELSE stripped
    IN  indicator_name \o <<"gap", "fm">>

\* part = df[keys].copy(); part[gap_name] = df[female_col] - df[male_col]
WidePart(frame, male_col, gap_name) ==
    LET female_col == WithSuffix(StripSuffix(male_col), "female")
    IN  Frame(GapKeys \o <<gap_name>>,
              [i \in DOMAIN frame.rows |->
                  [c \in Range(GapKeys) \cup {gap_name} |->
                      IF c = gap_name
                      THEN Sub(frame.rows[i][female_col], frame.rows[i][male_col])
                      ELSE frame.rows[i][c]]])

\* `if gap_name in produced: continue` of data.py:75-76
AlreadyProduced(gap_name, produced) == gap_name \in produced

\* The wide pass (data.py:64-80) over male_cols from position i on
RECURSIVE WidePass(_, _, _, _)
WidePass(frame, male_cols, i, st) ==
    IF i > Len(male_cols) \/ st.error # "none" THEN st
    ELSE LET male_col == male_cols[i]
             female_col == WithSuffix(StripSuffix(male_col), "female")
             gap_name == GapName(male_col)
         IN  IF ~Has(frame, female_col) THEN WidePass(frame, male_cols, i + 1, st)
             ELSE IF AlreadyProduced(gap_name, st.produced)
             THEN WidePass(frame, male_cols, i + 1, st)
             ELSE IF \E c \in Range(GapKeys) : ~Has(frame, c)
             THEN [st EXCEPT !.error = "KeyError"]
             ELSE WidePass(frame, male_cols, i + 1,
                           [st EXCEPT !.out = Append(@, WidePart(frame, male_col, gap_name)),
                                      !.produced = @ \cup {gap_name}])

\* The gap tables, in the order produced  (data.py:43-80)
GapParts(frame) ==
    LET start == [out |-> <<>>, produced |-> {}, error |-> "none"]
        long == IF Has(frame, sex) THEN LongPass(frame, 1, start) ELSE start
    IN  WidePass(frame, MaleCols(frame), 1, long)

\* The merge with how="inner" in place of how="outer".
GapMergeInner == "inner"

\* how="outer" of data.py:87
GapMergeHow == "outer"

\* res = out[0]; for part in out[1:]: res = pd.merge(res, part, ...)
RECURSIVE MergeAll(_, _, _)
MergeAll(res, parts, i) ==
    IF i > Len(parts) THEN res
    ELSE MergeAll(Merge(res, parts[i], GapKeys, GapMergeHow), parts, i + 1)

\* data.py:41-88
gender_gap(frame) ==
    LET st == GapParts(frame)
    IN  IF st.error # "none" THEN Fails(st.error)
        ELSE IF st.out = <<>> THEN Fails("ValueError: not sex-stratified")
        ELSE Ok(MergeAll(st.out[1], st.out, 2))

(***************************************************************************)
(* The inputs the operations of data.py are applied to                     *)
(***************************************************************************)
MaxCleanRows == 2
MaxBaseRows == 2
MaxExternalRows == 3

\* f is a frame of the columns cols with at most n rows, each in R
FrameIn(f, cols, R, n) ==
    \E m \in 0..n : \E rows \in [1..m -> R] : f = Frame(cols, rows)

\* the rows over the columns cols whose cell in column c is in cells[c]
RECURSIVE RowsOver(_, _)
RowsOver(cols, cells) ==
    IF cols = <<>> THEN {<<>>}
    ELSE {(Head(cols) :> v) @@ r :
            v \in cells[Head(cols)], r \in RowsOver(Tail(cols), cells)}

CleanCells ==
    [c \in {country_iso3, year, sex, prevalence_total} |->
        IF c = country_iso3 THEN {Str("AAA"), NaN}
        ELSE IF c = year THEN {Num(2020), NaN}
        ELSE IF c = sex THEN {Str("male"), Str("female")}
        ELSE {Num(10), NaN}]

CleanShapes ==
    {<<country_iso3, year, sex, prevalence_total>>,
     <<country_iso3, year, prevalence_total>>,
     <<country_iso3, sex, prevalence_total>>,
     <<year, sex>>}

CleanInput(f) ==
    \E cols \in CleanShapes :
        FrameIn(f, cols, RowsOver(cols, CleanCells), MaxCleanRows)

gdp == <<"gdp">>

JoinCells ==
    [c \in {country_iso3, year, prevalence_total, gdp} |->
        IF c = country_iso3 THEN {Str("AAA"), Str("BBB")}
        ELSE IF c = year THEN {Num(2020), Num(2021)}
        ELSE IF c = gdp THEN {Num(1)}
        ELSE {Num(10)}]

BaseCols == <<country_iso3, year, prevalence_total>>

BaseInput(f) == FrameIn(f, BaseCols, RowsOver(BaseCols, JoinCells), MaxBaseRows)

ExternalShapes == {<<country_iso3, year, gdp>>, <<country_iso3, gdp>>}

ExternalInput(f) ==
    \E cols \in ExternalShapes :
        FrameIn(f, cols, RowsOver(cols, JoinCells), MaxExternalRows)

OnInputs == {<<country_iso3, year>>, <<country_iso3>>}

MaxGapRows == 3

dep_male == <<"dep", "male">>
dep_female == <<"dep", "female">>

\* "dep__male" and "dep__female": the base name ends with an underscore
dep__male == <<"dep", "", "male">>
dep__female == <<"dep", "", "female">>

\* "_male" and "_female": the base name is empty
only_male == <<"", "male">>
only_female == <<"", "female">>

prevalence_total_male == <<"prevalence", "total", "male">>
prevalence_total_female == <<"prevalence", "total", "female">>

\* long shape, two indicators that need not cover the same keys
GapLongCols ==
    <<country, country_iso3, year, sex, prevalence_total, prevalence_depression>>

GapLongCells ==
    [c \in Range(GapLongCols) |->
        IF c = country THEN {Str("X")}
        ELSE IF c = country_iso3 THEN {Str("AAA")}
        ELSE IF c = year THEN {Num(2019), Num(2020), Num(2021)}
        ELSE IF c = sex THEN {Str("Female"), Str("male")}
        ELSE IF c = prevalence_total THEN {Num(10), NaN}
        ELSE {Num(4), NaN}]

\* wide shape, two pairs with one base name
GapWideCols ==
    <<country, country_iso3, year, dep_male, dep_female, dep__male, dep__female>>

GapWideCells ==
    [c \in Range(GapWideCols) |->
        IF c = country THEN {Str("X")}
        ELSE IF c = country_iso3 THEN {Str("AAA"), Str("BBB")}
        ELSE IF c = year THEN {Num(2020), NaN}
        ELSE IF c = dep_female THEN {Num(10), NaN}
        ELSE IF c = dep_male THEN {Num(4)}
        ELSE IF c = dep__male THEN {Num(1)}
        ELSE {Num(2)}]

\* one row per sex that also carries *_male/*_female columns
GapMixedCols ==
    <<country, country_iso3, year, sex, prevalence_total,
      prevalence_total_male, prevalence_total_female, dep_male, dep_female>>

GapMixedCells ==
    [c \in Range(GapMixedCols) |->
        IF c = country THEN {Str("X")}
        ELSE IF c = country_iso3 THEN {Str("AAA")}
        ELSE IF c = year THEN {Num(2020), Num(2021)}
        ELSE IF c = sex THEN {Str("Female"), Str("Male")}
        ELSE IF c = prevalence_total THEN {Num(10), Num(16)}
        ELSE IF c \in {dep_male, prevalence_total_male} THEN {Num(4)}
        ELSE {Num(10)}]

\* sex labels that differ only in case
GapLabelCols == <<country, country_iso3, year, sex, prevalence_anxiety>>

GapLabelCells ==
    [c \in Range(GapLabelCols) |->
        IF c = country THEN {Str("X")}
        ELSE IF c = country_iso3 THEN {Str("AAA")}
        ELSE IF c = year THEN {Num(2020)}
        ELSE IF c = sex THEN {Str("Female"), Str("Male"), Str("male")}
        ELSE {Num(10)}]

\* the pair "_male"/"_female"; no pair at all; no key columns
GapOtherShapes ==
    {<<country, country_iso3, year, only_male, only_female>>,
     <<country, country_iso3, year, dep_male, prevalence_total>>,
     <<year, dep_male, dep_female>>,
     <<year, sex, prevalence_total>>}

GapOtherCells ==
    [c \in UNION {Range(cols) : cols \in GapOtherShapes} |->
        IF c = country THEN {Str("X")}
        ELSE IF c = country_iso3 THEN {Str("AAA")}
        ELSE IF c = year THEN {Num(2020)}
        ELSE IF c = sex THEN {Str("Female"), Str("male")}
        ELSE {Num(4), Num(10)}]

\* a row of the long shape reports at least one of the two indicators
GapLongRows ==
    {r \in RowsOver(GapLongCols, GapLongCells) :
        ~IsNull(r[prevalence_total]) \/ ~IsNull(r[prevalence_depression])}

GapInput(f) ==
    \/ FrameIn(f, GapLongCols, GapLongRows, MaxGapRows)
    \/ FrameIn(f, GapWideCols, RowsOver(GapWideCols, GapWideCells), MaxGapRows)
    \/ FrameIn(f, GapMixedCols, RowsOver(GapMixedCols, GapMixedCells), MaxGapRows)
    \/ FrameIn(f, GapLabelCols, RowsOver(GapLabelCols, GapLabelCells), MaxGapRows)
    \/ \E cols \in GapOtherShapes :
          FrameIn(f, cols, RowsOver(cols, GapOtherCells), MaxGapRows)

InitGap ==
    /\ op = "gender_gap"
    /\ GapInput(df)
    /\ external = NoFrame
    /\ on = <<>>
    /\ out = NoOutcome
    /\ ReaderIdle
    /\ ResolverIdle

GenderGap ==
    /\ op = "gender_gap"
    /\ out = NoOutcome
    /\ out' = gender_gap(df)
    /\ UNCHANGED <<op, df, external, on, readerVars, resolverVars>>

SpecGap == InitGap /\ [][GenderGap]_vars

MaxIngestRows == 2

IngestShapes ==
    {<<Entity, Year, Male, Female>>,
     <<Entity, Year, Male, Female, Total>>,
     <<Entity, Year, Male, Notes>>,
     <<Year, Male, Female>>}

IngestCells(cols) ==
    [c \in Range(cols) |->
        IF c = Entity
        THEN IF Notes \in Range(cols)
             THEN {Text(<<"C", "ô">>), Text(<<" ">>), NaN}
             ELSE {Text(<<"C", "ô">>)}
        ELSE IF c = Year
        THEN IF Notes \in Range(cols) THEN {Num(2020), Str("n/a")} ELSE {Num(2020)}
        ELSE IF c = Male
        THEN IF Female \in Range(cols) /\ Entity \in Range(cols)
             THEN {Num(10), Num(21), NaN} ELSE {Num(10)}
        ELSE IF c = Female THEN {Num(20), NaN}
        ELSE IF c = Total THEN {Num(15), NaN}
        ELSE {Str("x")}]

IngestInput(f) ==
    \E cols \in IngestShapes :
        FrameIn(f, cols, RowsOver(cols, IngestCells(cols)), MaxIngestRows)

InitIngest ==
    /\ op = "ingest_csv"
    /\ IngestInput(df)
    /\ external = NoFrame
    /\ on = <<>>
    /\ out = NoOutcome
    /\ cc \in BOOLEAN
    /\ bundle \in BOOLEAN
    /\ cache = EmptyCache
    /\ loads = 0
    /\ served = "none"
    /\ calls = 0
    /\ name = <<>>
    /\ code = None
    /\ origin = "none"
    /\ ReaderIdle

IngestCsv ==
    /\ op = "ingest_csv"
    /\ out = NoOutcome
    /\ \E answers \in [DOMAIN df.rows -> PrimaryAnswers] :
          LET r == ingest_csv(df, answers)
          IN  /\ out' = r.outcome
              /\ cache' = r.cache
              /\ loads' = r.loads
              /\ served' = r.served
    /\ UNCHANGED <<op, df, external, on, cc, bundle, calls, name, code, origin,
                   readerVars>>

SpecIngest == InitIngest /\ [][IngestCsv]_vars

InitClean ==
    /\ op = "clean"
    /\ CleanInput(df)
    /\ external = NoFrame
    /\ on = <<>>
    /\ out = NoOutcome
    /\ ReaderIdle
    /\ ResolverIdle

Clean ==
    /\ op = "clean"
    /\ out = NoOutcome
    /\ out' = clean(df)
    /\ UNCHANGED <<op, df, external, on, readerVars, resolverVars>>

SpecClean == InitClean /\ [][Clean]_vars

InitJoin ==
    /\ op = "join_external"
    /\ BaseInput(df)
    /\ ExternalInput(external)
    /\ on \in OnInputs
    /\ out = NoOutcome
    /\ ReaderIdle
    /\ ResolverIdle

JoinExternal ==
    /\ op = "join_external"
    /\ out = NoOutcome
    /\ out' = join_external(df, external, on)
    /\ UNCHANGED <<op, df, external, on, readerVars, resolverVars>>

SpecJoin == InitJoin /\ [][JoinExternal]_vars

(***************************************************************************)
(* The whole model: one of the operations, applied to one of its inputs    *)
(***************************************************************************)
Init ==
    \/ InitReader
    \/ InitResolver
    \/ InitIngest
    \/ InitClean
    \/ InitGap
    \/ InitJoin

Next ==
    \/ NextReader
    \/ ToIso3
    \/ IngestCsv
    \/ Clean
    \/ GenderGap
    \/ JoinExternal

Spec == Init /\ [][Next]_vars

(***************************************************************************)
(* Claims about read_parquet_safe                                          *)
(***************************************************************************)
\* Every strategy failed: the first three with the signature, and the
\* alternate engine was tried and raised.
ChainExhausted ==
    /\ pc = "done"
    /\ \A s \in {"primary", "legacy", "single"} :
          errs[s] = Exc(s, "OSError", TRUE)
    /\ errs["fastparquet"] # NoErr

\* C1: when the primary, legacy, single-file and alternate-engine reads all
\* fail (the first three with the signature), the error the caller sees is
\* the one the primary attempt raised.
C1_FirstErrorSurfaced ==
    ChainExhausted => result = RaisedOut(errs["primary"])

\* C2 (as stated): at every strategy, an error without the signature is
\* propagated at once as that error, and no strategy is attempted after it.
C2_OnlySignatureFallsBack ==
    \A s \in Strategies :
        (errs[s] # NoErr /\ ~errs[s].defect) =>
            (result = RaisedOut(errs[s]) /\ Last(attempts) = s)

\* C2 (amended): at the primary, legacy, retry and single-file reads an
\* error without the signature is propagated at once as that error and no
\* strategy is attempted after it, except a TypeError of the legacy read,
\* which is followed by the plain read_table retry; an error of the
\* alternate-engine read is never propagated as itself, a signature-carrying
\* error of an earlier attempt is raised in its place.
C2_SignatureFallbackAmended ==
    /\ \A s \in {"primary", "legacy", "retry", "single"} :
          (/\ errs[s] # NoErr
           /\ ~errs[s].defect
           /\ ~(s = "legacy" /\ errs[s].type = "TypeError")) =>
              (result = RaisedOut(errs[s]) /\ Last(attempts) = s)
    /\ (errs["legacy"].type = "TypeError" /\ Last(attempts) = "legacy") =>
          (pc = "retry" /\ result = Running)
    /\ errs["fastparquet"] # NoErr =>
          /\ result.kind = "err"
          /\ result.err \in {errs[s] : s \in {"primary", "legacy", "single"}}
          /\ result.err.defect
          /\ Last(attempts) = "fastparquet"

\* The deepest strategy at which a non-signature OSError propagates.
C2_Witness ==
    /\ pc = "done"
    /\ attempts = <<"primary", "legacy", "single">>
    /\ errs["single"] = Exc("single", "OSError", FALSE)
    /\ result = RaisedOut(errs["single"])

\* C3: with a column subset requested and the file decoded by a strategy
\* after the first, a missing column ends the call with the KeyError naming
\* the missing columns, and otherwise exactly the requested columns return.
C3_LaterStrategiesValidate ==
    (/\ pc = "done"
     /\ ColumnsRequested
     /\ decoded \in {"legacy", "retry", "single", "fastparquet"}) =>
        IF Missing(columns, FileColumns) # <<>>
        THEN result = RaisedOut(KeyErrorOf(Missing(columns, FileColumns)))
        ELSE result.kind = "ok" /\ Range(result.cols) = Range(columns)

(***************************************************************************)
(* Claims about clean, join_external and gender_gap                        *)
(***************************************************************************)
\* how many elements of the sequence rows satisfy the set test
Count(rows, test) == Cardinality({i \in DOMAIN rows : rows[i] \in test})

Cleaned == op = "clean" /\ out.kind = "ok"

\* C5: of two records with country code and year that are identical in
\* every field except sex, both are in clean's output; records identical in
\* every field, sex included, are collapsed to one.
C5_SexRowsPreserved ==
    Cleaned =>
        \A i, j \in DOMAIN df.rows :
            LET a == df.rows[i]
                b == df.rows[j]
                keyed(r) == ~IsNull(r[country_iso3]) /\ ~IsNull(r[year])
            IN  (i < j /\ keyed(a) /\ keyed(b)) =>
                   /\ (/\ Has(df, sex)
                       /\ a[sex] # b[sex]
                       /\ \A c \in Range(df.cols) \ {sex} : a[c] = b[c]) =>
                          (Count(out.frame.rows, {a}) >= 1
                           /\ Count(out.frame.rows, {b}) >= 1)
                   /\ a = b => Count(out.frame.rows, {a}) = 1

Joined == op = "join_external" /\ out.kind = "ok"

\* the external rows that match base row b on the key
Matches(b) ==
    {j \in DOMAIN external.rows : KeyOf(external.rows[j], on) = KeyOf(b, on)}

\* the cell of base column c in a result row: merge suffixes a non-key
\* column that both frames have
BaseCell(r, c) == IF c \in DOMAIN r THEN r[c] ELSE r[c \o <<"x">>]

ExternalCell(r, c) == IF c \in Range(df.cols) THEN r[c \o <<"y">>] ELSE r[c]

\* the result rows that carry base row b
Carrying(b) ==
    {i \in DOMAIN out.frame.rows :
        \A c \in Range(df.cols) : BaseCell(out.frame.rows[i], c) = b[c]}

\* C9: a base row without a match appears once, with its columns kept and
\* the external columns null; a base row with k >= 1 matches appears k
\* times; no result row comes from an external row alone.
C9_LeftJoinCardinality ==
    Joined =>
        /\ \A i \in DOMAIN df.rows :
              LET b == df.rows[i]
                  copies == Cardinality({i2 \in DOMAIN df.rows : df.rows[i2] = b})
                  k == Cardinality(Matches(b))
              IN  /\ Cardinality(Carrying(b)) = copies * (IF k = 0 THEN 1 ELSE k)
                  /\ k = 0 =>
                        \A r \in Carrying(b) :
                            \A c \in Range(external.cols) \ Range(on) :
                                IsNull(ExternalCell(out.frame.rows[r], c))
        /\ \A r \in DOMAIN out.frame.rows :
              \E i \in DOMAIN df.rows : r \in Carrying(df.rows[i])

\* a base row without a match, one with two matches, and an external row
\* that matches no base row
C9_Witness ==
    /\ Joined
    /\ \E i \in DOMAIN df.rows : Matches(df.rows[i]) = {}
    /\ \E i \in DOMAIN df.rows : Cardinality(Matches(df.rows[i])) = 2
    /\ \E j \in DOMAIN external.rows :
          \A i \in DOMAIN df.rows :
              KeyOf(external.rows[j], on) # KeyOf(df.rows[i], on)

Gapped == op = "gender_gap" /\ out.kind = "ok"

KeysOf(frame) == {KeyOf(frame.rows[i], GapKeys) : i \in DOMAIN frame.rows}

\* C8: the merged result has a row for every key of every gap table, and a
\* null in a gap column wherever that table has no row for the key.
C8_MergeCoverage ==
    Gapped =>
        LET parts == GapParts(df).out
        IN  \A p \in DOMAIN parts :
               /\ KeysOf(parts[p]) \subseteq KeysOf(out.frame)
               /\ \A r \in DOMAIN out.frame.rows :
                     KeyOf(out.frame.rows[r], GapKeys) \notin KeysOf(parts[p]) =>
                        IsNull(out.frame.rows[r][Last(parts[p].cols)])

YearsOf(frame) == {frame.rows[i][year] : i \in DOMAIN frame.rows}

\* indicator A has rows for 2019 and 2020, indicator B for 2020 and 2021
C8_Witness ==
    /\ Gapped
    /\ LET parts == GapParts(df).out
       IN  /\ Len(parts) = 2
           /\ YearsOf(parts[1]) = {Num(2019), Num(2020)}
           /\ YearsOf(parts[2]) = {Num(2020), Num(2021)}
    /\ YearsOf(out.frame) = {Num(2019), Num(2020), Num(2021)}

\* C10: no two rows of gender_gap's result have the same
\* (country, country_iso3, year), and no gap column name occurs twice.
C10_ResultIsKeyed ==
    Gapped =>
        /\ \A i, j \in DOMAIN out.frame.rows :
              i # j => KeyOf(out.frame.rows[i], GapKeys)
                          # KeyOf(out.frame.rows[j], GapKeys)
        /\ \A i, j \in DOMAIN out.frame.cols :
              i # j => out.frame.cols[i] # out.frame.cols[j]

(***************************************************************************)
(* Claims about ingest_csv and the resolver                                *)
(***************************************************************************)
\* C4: when prevalence_total is absent after renaming and both sex-specific
\* columns are present, the derived total of a row is the mean of the two
\* values if both are non-null, and null if either is null.
C4_DerivedTotal ==
    (/\ op = "ingest_csv"
     /\ out.kind = "ok"
     /\ ~Has(Rename(df), prevalence_total)
     /\ Has(Rename(df), prevalence_male)
     /\ Has(Rename(df), prevalence_female)) =>
        \A i \in DOMAIN df.rows :
            LET m == df.rows[i][Male]
                f == df.rows[i][Female]
                total == out.frame.rows[i][prevalence_total]
            IN  IF ~IsNull(m) /\ ~IsNull(f)
                THEN total = Rat(m.n * f.d + f.n * m.d, 2 * m.d * f.d)
                ELSE IsNull(total)

\* A name with case, diacritics, punctuation and spacing removed
Unaccent(ch) ==
    CASE ch = "ô" -> "o"
      [] ch = "Ô" -> "O"
      [] OTHER -> ch

RECURSIVE FoldName(_)
FoldName(x) ==
    IF x = <<>> THEN <<>>
    ELSE IF Head(x) \in {" ", "'", "-", "."} THEN FoldName(Tail(x))
         ELSE <<LowerChar(Unaccent(Head(x)))>> \o FoldName(Tail(x))

\* a and b differ only in letter case, punctuation, spacing or diacritics
SameUpToFolding(a, b) == FoldName(a) = FoldName(b)

\* C6: two names that differ only in letter case, punctuation, spacing or
\* diacritics have the same lookup key, and a name that is such a variant
\* of an entry of the bundled table resolves, by the fallback, to the
\* entry's code.
C6_NormalizationInvariance ==
    (origin = "fallback" /\ served \in {"load", "cache"}) =>
        /\ \A other \in InputNames :
              SameUpToFolding(name, other) =>
                  _normalize_key(name) = _normalize_key(other)
        /\ \A i \in DOMAIN BundledTable :
              SameUpToFolding(name, BundledTable[i].name) =>
                  code = BundledTable[i].code

=============================================================================
